---- MODULE Spec2Model ----
(***************************************************************************)
(* A model of apple_music_discord/main.py: the framed IPC transport        *)
(* (_send_packet / _read_packet), the presence client (DiscordRPC.connect, *)
(* set_activity, close) and the polling loop of main().                    *)
(*                                                                         *)
(* Bytes are naturals 0..255.  The 8-byte header is modelled bit-exactly   *)
(* (two little-endian uint32).  JSON texts are modelled over a reduced     *)
(* alphabet: every JSON value the model uses has a short text, and         *)
(* JsonLoads parses exactly those texts and rejects everything else.       *)
(***************************************************************************)
EXTENDS Integers, Sequences, FiniteSets, TLC

\* ------------------------------------------------------------------ bounds

\* Polling-loop iterations explored.
MaxTicks == 3

\* Discord instances (existing discord-ipc-<i> paths) in the runtime directory.
MaxInstances == 2

\* Calls a caller of the client makes.
MaxCalls == 2

\* set_activity calls of a session: a caller that connects to one Discord
\* instance and then sends commands.
MaxCommands == 2

\* ------------------------------------------------------- program constants

\* range(10): the candidate socket paths discord-ipc-0 .. discord-ipc-9.
NumCandidates == 10

\* 1024 * 1024: the largest payload length _read_packet accepts.
MaxPacketLen == 1048576

\* self.sock = None
NoSock == -1

\* ------------------------------------------------------------ byte helpers

Min(a, b) == IF a <= b THEN a ELSE b

Take(s, n) == SubSeq(s, 1, Min(n, Len(s)))

Drop(s, n) == SubSeq(s, Min(n, Len(s)) + 1, Len(s))

\* struct.pack("<I", n): four bytes, least significant first.
LE32(n) ==
  << n % 256, (n \div 256) % 256, (n \div 65536) % 256, (n \div 16777216) % 256 >>

\* struct.unpack("<I", b).  TLC's integers end at 2^31 - 1: a value
\* with the top bit set (b[4] >= 128) is given as 2^31 - 1, which like the
\* value itself is above every length the code accepts.
UnLE32(b) ==
  IF b[4] >= 128 THEN 2147483647
  ELSE b[1] + 256 * b[2] + 65536 * b[3] + 16777216 * b[4]

\* struct.pack("<II", opcode, length)
StructPack(opcode, length) == LE32(opcode) \o LE32(length)

\* struct.unpack("<II", header): <<opcode, length>>
StructUnpack(header) ==
  << UnLE32(SubSeq(header, 1, 4)), UnLE32(SubSeq(header, 5, 8)) >>

\* -------------------------------------------------------------- JSON values

\* Python values a JSON text can load to, and the payloads the client sends.
\*   k = "none"      None (JSON null)
\*   k = "number"    the JSON number n (0 is falsy, 1 is truthy; not a dict)
\*   k = "dict"      a response object {"evt": evt, "nonce": n}; evt is a byte
\*                   naming the event: 82 "READY", 69 "ERROR", 110 null
\*   k = "empty"     the empty object {}
\*   k = "handshake" {"v": 1, "client_id": CLIENT_ID}
\*   k = "command"   {"cmd": "SET_ACTIVITY", "nonce": n, "args": {"pid": ..,
\*                   "activity": act}}; act = 110 for null, 97 for an activity
JVal(k, evt, n) == [k |-> k, evt |-> evt, n |-> n]

NoneVal == JVal("none", 0, 0)

EvtReady == 82

EvtError == 69

Handshake == JVal("handshake", 0, 0)

Command(nonce, activityIsNone) ==
  JVal("command", IF activityIsNone THEN 110 ELSE 97, nonce)

\* json.dumps(data).encode("utf-8")
JsonDumps(v) ==
  CASE v.k = "none" -> << 110 >>
    [] v.k = "number" -> << 48 + v.n >>
    [] v.k = "empty" -> << 123, 125 >>
    [] v.k = "dict" -> << 123, v.evt, 48 + v.n, 125 >>
    [] v.k = "handshake" -> << 123, 118, 125 >>
    [] v.k = "command" -> << 123, 99, 48 + v.n, v.evt, 125 >>

\* bytes.decode("utf-8") followed by json.loads: [ok, v].  ok = FALSE stands
\* for UnicodeDecodeError (a byte >= 128) and for json.JSONDecodeError.
JsonLoads(b) ==
  LET bad == [ok |-> FALSE, v |-> NoneVal]
      good(v) == [ok |-> TRUE, v |-> v]
      digit(x) == x >= 48 /\ x <= 57
  IN  IF \E i \in 1..Len(b) : b[i] >= 128 THEN bad
      ELSE IF b = << 110 >> THEN good(NoneVal)
      ELSE IF Len(b) = 1 /\ digit(b[1]) THEN good(JVal("number", 0, b[1] - 48))
      ELSE IF b = << 123, 125 >> THEN good(JVal("empty", 0, 0))
      ELSE IF b = << 123, 118, 125 >> THEN good(Handshake)
      ELSE IF Len(b) = 4 /\ b[1] = 123 /\ b[4] = 125 /\ digit(b[3])
                /\ b[2] \in {EvtReady, EvtError, 110}
           THEN good(JVal("dict", b[2], b[3] - 48))
      ELSE IF Len(b) = 5 /\ b[1] = 123 /\ b[2] = 99 /\ b[5] = 125 /\ digit(b[3])
                /\ b[4] \in {110, 97}
           THEN good(JVal("command", b[4], b[3] - 48))
      ELSE bad

\* Python truthiness of a loaded value: `if response and ...`.
Truthy(v) ==
  CASE v.k = "none" -> FALSE
    [] v.k = "number" -> v.n # 0
    [] v.k = "empty" -> FALSE
    [] OTHER -> TRUE

\* Whether response.get exists (a dict); otherwise .get raises AttributeError.
IsDict(v) == v.k \in {"dict", "empty", "handshake", "command"}

\* response.get("evt")
GetEvt(v) == IF v.k = "dict" THEN v.evt ELSE 110

\* ------------------------------------------------------------ the transport

\* _send_packet(opcode, data) on a socket whose send() succeeds iff sendOk:
\* [raised, bytes].  Every failure leaves as RuntimeError or ValueError.
\* (The callers pass the opcodes 0 and 1; struct.error for an opcode of 2^32
\* or more is outside the model.)
SendPacket(hasSock, opcode, data, sendOk) ==
  IF ~hasSock THEN [raised |-> TRUE, bytes |-> << >>]
  ELSE IF opcode < 0 THEN [raised |-> TRUE, bytes |-> << >>]
  ELSE IF ~sendOk THEN [raised |-> TRUE, bytes |-> << >>]
  ELSE LET json_data == JsonDumps(data)
       IN  [raised |-> FALSE,
            bytes |-> StructPack(opcode, Len(json_data)) \o json_data]

\* The validation of the header's length field: TRUE when _read_packet raises
\* ValueError ("Packet too large" / "Invalid packet length").
LengthInvalid(length) == length > MaxPacketLen \/ length <= 0

\* _read_packet() on a socket with the bytes w in flight towards the client.
\* sock.recv(8) returns k1 bytes and sock.recv(length) returns k2 bytes (each
\* at most what was asked for and what is in flight; 0 bytes is a timeout or
\* an end of stream).  res: "ok" (opcode, val), "none" (None, None) or
\* "raise" (an exception leaves _read_packet).
ReadPacket(hasSock, w, k1, k2) ==
  LET out(res, opcode, val, rest, hlen, length) ==
        [res |-> res, opcode |-> opcode, val |-> val, wire |-> rest,
         hlen |-> hlen, length |-> length]
  IN  IF ~hasSock THEN out("none", 0, NoneVal, w, 0, 0)
      ELSE
        LET header == Take(w, Min(k1, 8))
            w1 == Drop(w, Min(k1, 8))
        IN  IF Len(header) < 8 THEN out("none", 0, NoneVal, w1, Len(header), 0)
            ELSE
              LET opcode == StructUnpack(header)[1]
                  length == StructUnpack(header)[2]
              IN  IF LengthInvalid(length)
                    THEN out("raise", 0, NoneVal, w1, 8, length)
                  ELSE
                    LET body == Take(w1, Min(k2, length))
                        w2 == Drop(w1, Min(k2, length))
                        p == JsonLoads(body)
                    IN  IF p.ok THEN out("ok", opcode, p.v, w2, 8, length)
                        ELSE out("none", 0, NoneVal, w2, 8, length)

\* ------------------------------------------------------------------ the peer

\* What the peer writes back after a packet from the client.  n is the nonce
\* of the command answered (0 for the handshake).
ReplyKinds ==
  {"ready", "error", "ack", "zero", "huge", "limit", "garbage", "number",
   "silent"}

PeerReply(kind, n) ==
  CASE kind = "ready" -> StructPack(1, 4) \o JsonDumps(JVal("dict", EvtReady, n))
    [] kind = "error" -> StructPack(1, 4) \o JsonDumps(JVal("dict", EvtError, n))
    [] kind = "ack" -> StructPack(1, 4) \o JsonDumps(JVal("dict", 110, n))
    [] kind = "zero" -> StructPack(1, 0)
    [] kind = "huge" -> StructPack(1, MaxPacketLen + 1) \o << 123 >>
    [] kind = "limit" -> StructPack(1, MaxPacketLen) \o << 123, 125 >>
    [] kind = "garbage" -> StructPack(1, 1) \o << 255 >>
    [] kind = "number" -> StructPack(1, 1) \o << 49 >>
    [] kind = "silent" -> << >>

\* The sizes <<k1, k2>> the two recv calls of one _read_packet can return with
\* the bytes w in flight: recv(8) returns at most 8 bytes, and recv(length)
\* is made only after a full header with a valid length.
RecvSizes(w) ==
  { k \in (0..8) \X (0..Len(w)) :
      /\ k[1] <= Len(w)
      /\ k[1] < 8 => k[2] = 0
      /\ k[1] = 8 =>
           LET length == StructUnpack(Take(w, 8))[2]
           IN  IF LengthInvalid(length) THEN k[2] = 0
               ELSE k[2] <= Min(length, Len(w) - 8) }

\* ---------------------------------------------------------------- the client

\* The DiscordRPC object and what it owns.
\*   sock       self.sock: NoSock, or the index i of the discord-ipc-<i> path
\*              the socket was opened for
\*   connected  self.connected
\*   wire       the bytes in flight from the peer on self.sock
\*   garbage    sockets that were opened, never closed and are no longer
\*              referenced (self.sock was overwritten) and still open
Client(sock, connected, wire, garbage) ==
  [sock |-> sock, connected |-> connected, wire |-> wire, garbage |-> garbage]

\* DiscordRPC.__init__
NewClient == Client(NoSock, FALSE, << >>, 0)

\* The number of sockets the process holds open.
OpenSockets(c) == c.garbage + (IF c.sock # NoSock THEN 1 ELSE 0)

\* A close() that closes the socket and leaves connected as it is.
CloseKeepsConnected(c) == Client(NoSock, c.connected, << >>, c.garbage)

\* close(): closes the socket if there is one, then connected = False.
Close(c) == Client(NoSock, FALSE, << >>, c.garbage)

\* The except handlers of connect: close self.sock if set, self.sock = None.
ConnectHandler(c) == Client(NoSock, c.connected, << >>, c.garbage)

\* What the environment decides during one I/O exchange.
\*   sockOk  socket.socket() succeeds       connOk  sock.connect() succeeds
\*   gc      the socket object self.sock referred to before it was overwritten
\*           is finalized (closed) at once, as reference counting does
\*   sendOk  sock.send() succeeds           reply   what the peer writes back
\*   k       the sizes the recv calls return
Env(sockOk, gc, connOk, sendOk, reply, k) ==
  [sockOk |-> sockOk, gc |-> gc, connOk |-> connOk, sendOk |-> sendOk,
   reply |-> reply, k |-> k]

\* What one call did, for the properties: the packets it sent, the sockets it
\* opened, what _read_packet found.
\*   sent, opened  packets sent, sockets opened
\*   sendFailed    _send_packet raised
\*   read          "skipped" (no _read_packet call), or its result
\*   hlen, length  the header bytes recv(8) returned, the length field
\*   val           the response _read_packet returned
\*   out           the bytes of the packet sent
Trace(sent, opened, sendFailed, read, hlen, length, val, out) ==
  [sent |-> sent, opened |-> opened, sendFailed |-> sendFailed, read |-> read,
   hlen |-> hlen, length |-> length, val |-> val, out |-> out]

NoTrace == Trace(0, 0, FALSE, "skipped", 0, 0, NoneVal, << >>)

SendFailedTrace(opened) ==
  Trace(0, opened, TRUE, "skipped", 0, 0, NoneVal, << >>)

\* The most sockets open at once while Probe runs: the new socket exists
\* before self.sock is rebound and the socket it referred to is released.
ProbePeak(c, e) == IF e.sockOk THEN OpenSockets(c) + 1 ELSE OpenSockets(c)

\* The body of connect's loop for a candidate i whose path exists (lines
\* 69-101): [c, ready, t].  ready: connect returns True.
Probe(c, i, e) ==
  IF ~e.sockOk
    THEN [c |-> ConnectHandler(c), ready |-> FALSE, t |-> NoTrace]
  ELSE
    LET lost == IF c.sock # NoSock /\ ~e.gc THEN 1 ELSE 0
        c1 == Client(i, c.connected, << >>, c.garbage + lost)
        s == SendPacket(TRUE, 0, Handshake, e.sendOk)
        w1 == PeerReply(e.reply, 0)
        r == ReadPacket(TRUE, w1, e.k[1], e.k[2])
        t == Trace(1, 1, FALSE, r.res, r.hlen, r.length, r.val, s.bytes)
    IN  IF ~e.connOk
          THEN [c |-> ConnectHandler(c1), ready |-> FALSE,
                t |-> Trace(0, 1, FALSE, "skipped", 0, 0, NoneVal, << >>)]
        ELSE IF s.raised
          THEN [c |-> ConnectHandler(c1), ready |-> FALSE,
                t |-> SendFailedTrace(1)]
        ELSE IF r.res = "raise"
          THEN [c |-> ConnectHandler(c1), ready |-> FALSE, t |-> t]
        ELSE IF Truthy(r.val) /\ ~IsDict(r.val)
          THEN [c |-> ConnectHandler(c1), ready |-> FALSE, t |-> t]
        ELSE IF Truthy(r.val) /\ GetEvt(r.val) = EvtReady
          THEN [c |-> Client(i, TRUE, r.wire, c1.garbage), ready |-> TRUE,
                t |-> t]
        ELSE [c |-> Client(i, c1.connected, r.wire, c1.garbage),
              ready |-> FALSE, t |-> t]

\* A test that looks at the socket only (`if not self.sock:`).
NotConnectedSockOnly(c) == c.sock = NoSock

\* The test of line 145: set_activity returns False at once.
NotConnected(c) == ~c.connected \/ c.sock = NoSock

\* A set_activity that closes the connection when the response is an ERROR.
SetActivityClosesOnError(c, activityIsNone, n, e) ==
  IF NotConnected(c)
    THEN [c |-> c, ret |-> FALSE, t |-> NoTrace]
  ELSE
    LET s == SendPacket(TRUE, 1, Command(n, activityIsNone), e.sendOk)
        w1 == c.wire \o PeerReply(e.reply, n)
        r == ReadPacket(TRUE, w1, e.k[1], e.k[2])
        c2 == Client(c.sock, c.connected, r.wire, c.garbage)
        t == Trace(1, 0, FALSE, r.res, r.hlen, r.length, r.val, s.bytes)
    IN  IF s.raised THEN [c |-> c, ret |-> FALSE, t |-> SendFailedTrace(0)]
        ELSE IF r.res = "raise" THEN [c |-> c2, ret |-> FALSE, t |-> t]
        ELSE IF Truthy(r.val) /\ ~IsDict(r.val)
          THEN [c |-> c2, ret |-> FALSE, t |-> t]
        ELSE IF Truthy(r.val) /\ GetEvt(r.val) = EvtError
          THEN [c |-> Close(c2), ret |-> FALSE, t |-> t]
        ELSE [c |-> c2, ret |-> TRUE, t |-> t]

\* set_activity(activity) with the fresh nonce n: [c, ret, t].
SetActivity(c, activityIsNone, n, e) ==
  IF NotConnected(c)
    THEN [c |-> c, ret |-> FALSE, t |-> NoTrace]
  ELSE
    LET s == SendPacket(TRUE, 1, Command(n, activityIsNone), e.sendOk)
        w1 == c.wire \o PeerReply(e.reply, n)
        r == ReadPacket(TRUE, w1, e.k[1], e.k[2])
        c2 == Client(c.sock, c.connected, r.wire, c.garbage)
        t == Trace(1, 0, FALSE, r.res, r.hlen, r.length, r.val, s.bytes)
    IN  IF s.raised THEN [c |-> c, ret |-> FALSE, t |-> SendFailedTrace(0)]
        ELSE IF r.res = "raise" THEN [c |-> c2, ret |-> FALSE, t |-> t]
        ELSE IF Truthy(r.val) /\ ~IsDict(r.val)
          THEN [c |-> c2, ret |-> FALSE, t |-> t]
        ELSE IF Truthy(r.val) /\ GetEvt(r.val) = EvtError
          THEN [c |-> c2, ret |-> FALSE, t |-> t]
        ELSE [c |-> c2, ret |-> TRUE, t |-> t]

\* What recv returns when it is not cut short: everything in flight that was
\* asked for.
FullRead(w) ==
  IF Len(w) < 8 THEN << Len(w), 0 >>
  ELSE LET length == StructUnpack(Take(w, 8))[2]
       IN  IF LengthInvalid(length) THEN << 8, 0 >>
           ELSE << 8, Min(length, Len(w) - 8) >>

\* The sizes the recv calls can return in a world: where the world has short
\* reads, every size (a timeout with bytes still on their way included);
\* otherwise all that is in flight, and a timeout when nothing is.
RecvSizesIn(wd, w) == IF wd.short THEN RecvSizes(w) ELSE {FullRead(w)}

\* The environment's choices for one set_activity call on the client c with
\* nonce n: the send fails, or it succeeds, the peer writes a reply (or none)
\* and the recv calls return some of what is in flight.
SetActivityEnvs(wd, c, n) ==
  {Env(TRUE, TRUE, TRUE, FALSE, "silent", << 0, 0 >>)} \cup
  UNION { { Env(TRUE, TRUE, TRUE, TRUE, reply, k) :
              k \in RecvSizesIn(wd, c.wire \o PeerReply(reply, n)) } :
          reply \in wd.replies }

\* The environment's choices for one candidate of connect.
ProbeEnvs(wd) ==
  {Env(FALSE, TRUE, TRUE, TRUE, "silent", << 0, 0 >>)} \cup
  { Env(TRUE, gc, FALSE, TRUE, "silent", << 0, 0 >>) : gc \in BOOLEAN } \cup
  { Env(TRUE, gc, TRUE, FALSE, "silent", << 0, 0 >>) : gc \in BOOLEAN } \cup
  UNION { { Env(TRUE, gc, TRUE, TRUE, reply, k) :
              gc \in BOOLEAN, k \in RecvSizesIn(wd, PeerReply(reply, 0)) } :
          reply \in wd.hello }

\* ------------------------------------------------------------ the media source

\* float("inf"): what float(parts[3]) gives for the text "inf".  Times are
\* counted in half seconds, so that fractions of a second exist.
Inf == 1000000

\* float("nan"): it compares false with everything.
NaN == 2000000

\* a < b and a > b on floats.
Lt(a, b) == a # NaN /\ b # NaN /\ a < b

Gt(a, b) == a # NaN /\ b # NaN /\ a > b

\* int(x) of a finite float x >= 0 counted in half seconds.
IntOf(x) == x \div 2

\* Optional values: None is the empty tuple, a value x is << x >>.
None == << >>

Some(x) == << x >>

\* str.strip() on a sequence of characters.
RECURSIVE LStrip(_)
LStrip(s) == IF s # << >> /\ Head(s) = " " THEN LStrip(Tail(s)) ELSE s

RECURSIVE RStrip(_)
RStrip(s) ==
  IF s # << >> /\ s[Len(s)] = " " THEN RStrip(SubSeq(s, 1, Len(s) - 1)) ELSE s

Strip(s) == RStrip(LStrip(s))

\* SongData(...) and its __post_init__: [ok, song].  ok = FALSE: ValueError.
SongData(title, artist, album, duration, position) ==
  LET song(pos) == [title |-> title, artist |-> artist, album |-> album,
                    duration |-> duration, position |-> pos]
  IN  IF Lt(duration, 0) THEN [ok |-> FALSE, song |-> song(position)]
      ELSE IF Lt(position, 0) THEN [ok |-> FALSE, song |-> song(position)]
      ELSE LET pos == IF Gt(position, duration) THEN duration ELSE position
           IN  IF Strip(title) = << >> THEN [ok |-> FALSE, song |-> song(pos)]
               ELSE IF Strip(artist) = << >>
                 THEN [ok |-> FALSE, song |-> song(pos)]
               ELSE [ok |-> TRUE, song |-> song(pos)]

\* What the osascript call printed, split at "|||" and with the two numbers
\* converted; playing = FALSE is "NOT_PLAYING" (or no usable output).
Raw(playing, title, artist, album, duration, position) ==
  [playing |-> playing, title |-> title, artist |-> artist, album |-> album,
   duration |-> duration, position |-> position]

NotPlaying == Raw(FALSE, << >>, << >>, << >>, 0, 0)

\* get_current_song(): None, or << song >>.  A ValueError of SongData is
\* caught and gives None.
GetCurrentSong(m) ==
  IF ~m.playing THEN None
  ELSE LET d == SongData(Strip(m.title), Strip(m.artist), Strip(m.album),
                         m.duration, m.position)
       IN  IF d.ok THEN Some(d.song) ELSE None

\* The outputs of the media source the model draws from: every title and
\* artist with one album and time, and one title and artist with every album
\* and with every time.
RawTitles == {<< "c" >>, << "b", "-", "c" >>, << " " >>}

RawArtists == {<< "a" >>, << "a", "-", "b" >>}

RawAlbums == {<< "x" >>, << "y" >>}

RawDurations == {7, Inf}

RawPositions == {-1, 3, 9}

RawOutputs ==
  {NotPlaying} \cup
  { Raw(TRUE, t, a, << "x" >>, 7, 3) : t \in RawTitles, a \in RawArtists } \cup
  { Raw(TRUE, << "c" >>, << "a" >>, al, 7, 3) : al \in RawAlbums } \cup
  { Raw(TRUE, << "c" >>, << "a" >>, << "x" >>, d, p) :
      d \in RawDurations, p \in RawPositions }

\* f"{song.artist}-{song.title}"
SongInfo(song) == song.artist \o << "-" >> \o song.title

\* Whether int(song.position) or int(song.duration - song.position) raises
\* (OverflowError or ValueError: the float is not finite).
TimestampsRaise(song) ==
  \/ song.position = NaN \/ song.duration = NaN
  \/ song.position >= Inf \/ song.duration >= Inf

\* int(time.time()) at the first tick, and the values it can have at the
\* tick after t ticks: a tick takes a second or more.
Epoch == 1000

Nows(t) == {Epoch + t, Epoch + t + 1}

\* Timestamps that end a whole duration after now.
TimestampsFromDuration(song, now) ==
  [now |-> now, start |-> now - IntOf(song.position),
   end |-> now + IntOf(song.duration),
   position |-> song.position, duration |-> song.duration]

\* The timestamps of the payload (lines 404-406, 413-416), with the snapshot
\* and the time they were computed from.
Timestamps(song, now) ==
  [now |-> now, start |-> now - IntOf(song.position),
   end |-> now + IntOf(song.duration - song.position),
   position |-> song.position, duration |-> song.duration]

\* No payload was built.
NoTimestamps ==
  [now |-> 0, start |-> 0, end |-> 0, position |-> 0, duration |-> 0]

\* ------------------------------------------------------------------- state

VARIABLES
  world,            \* the environment of the run, fixed from the start
  pc,               \* where the program is: "start", "api", "connect",
                    \* "loop", "done"
  ci,               \* connect: the loop variable i
  client,           \* the DiscordRPC object
  nonce,            \* set_activity calls made so far, plus one
  tick,             \* completed iterations of the polling loop
  last_was_playing, \* "None", "True" or "False"
  last_song_info,   \* None or << identity >>
  cached_artwork,   \* None or << what the lookup returned >>
  conn,             \* the record of the latest connect call
  last,             \* the record of the latest exchange with the peer
  loop,             \* the record of the latest iteration of the loop
  exit,             \* the record of the calls made over the whole run
  pure              \* a function applied on its own: its arguments and result

vars ==
  << world, pc, ci, client, nonce, tick, last_was_playing, last_song_info,
     cached_artwork, conn, last, loop, exit, pure >>

\* The environment of a run.
\*   harness  "main": main() runs; "api": a caller drives the client
\*   tmpdir   the runtime directory exists
\*   paths    the i whose discord-ipc-<i> path exists
\*   hello    what the peer may write back to a handshake
\*   replies  what the peer may write back to a command
\*   short    recv may return less than what is in flight
World(harness, tmpdir, paths, hello, replies, short) ==
  [harness |-> harness, tmpdir |-> tmpdir, paths |-> paths, hello |-> hello,
   replies |-> replies, short |-> short]

\* A peer that answers with well-formed packets, or not at all.
CalmHello == {"ready", "error", "silent"}

CalmReplies == {"ack", "error", "silent"}

\* The record of the latest call or exchange: a candidate of connect
\* ("probe"), a set_activity call, a connect or close call of a caller.
\*   inLoop          made by the body of main's loop
\*   wasConnected    connected and sock were set when it started
\*   activityIsNone  set_activity(None)
\*   ret             what it returned (probe: connect returns True)
\*   t               its Trace
LastRec(op, inLoop, wasConnected, activityIsNone, ret, t) ==
  [op |-> op, inLoop |-> inLoop, wasConnected |-> wasConnected,
   activityIsNone |-> activityIsNone, ret |-> ret, t |-> t]

NoLast == LastRec("none", FALSE, FALSE, FALSE, FALSE, NoTrace)

\* Whether an exchange read a response whose evt is READY.
AnsweredReady(t) ==
  t.read = "ok" /\ t.val.k = "dict" /\ t.val.evt = EvtReady

\* The record of a connect call.
\*   calls      connect calls so far        ret    "none", "running", "true",
\*   already    it found connected set             "false"
\*   order      the candidates whose path existed, in the order they were tried
\*   ready      for each of them, whether it answered READY
\*   opened, sent  sockets opened, packets sent
\*   maxOpen    the most sockets open at once
NoConn ==
  [calls |-> 0, ret |-> "none", already |-> FALSE, order |-> << >>,
   ready |-> << >>, opened |-> 0, sent |-> 0, maxOpen |-> 0]

\* No function is applied on its own.
NoPure == [kind |-> "none", arg |-> << >>, out |-> << >>]

\* The program's variables after DiscordRPC(CLIENT_ID) and before anything
\* else.
InitState ==
  /\ ci = 0
  /\ client = NewClient
  /\ nonce = 1
  /\ tick = 0
  /\ last_was_playing = "None"
  /\ last_song_info = None
  /\ cached_artwork = None
  /\ conn = NoConn
  /\ last = NoLast
  \* prev, this: the kind of the iteration before the latest and of the
  \* latest ("playing", "idle", "raise", "interrupt"); clears, pushes: its
  \* set_activity(None) and set_activity(activity) calls; looked: it made the
  \* artwork lookup; lookups: lookups so far; changes: playing ticks so far
  \* whose identity differs from the playing tick before (seen); artBefore:
  \* cached_artwork before the latest iteration; ts: the timestamps of the
  \* payload it pushed; pair: the (artist, title) of the latest tick with a
  \* song; pairChanged: the latest tick had a song and another pair than the
  \* tick with a song before it; invalid: the media source reported a song
  \* and get_current_song rejected it.
  /\ loop = [prev |-> "none", this |-> "none", clears |-> 0, pushes |-> 0,
             looked |-> FALSE, lookups |-> 0, changes |-> 0, seen |-> None,
             artBefore |-> None, ts |-> NoTimestamps, pair |-> None,
             pairChanged |-> FALSE, invalid |-> FALSE]
  \* entered: the loop was entered and left; how: "raise" or "interrupt";
  \* log: the calls of the finally block; closes: close() calls so far;
  \* apiCalls: calls a caller of the client made; onReady: the socket
  \* self.sock refers to received a READY response.
  /\ exit = [entered |-> FALSE, how |-> "none", log |-> << >>, closes |-> 0,
             apiCalls |-> 0, onReady |-> FALSE]

InitRest ==
  /\ pure = NoPure
  /\ InitState

\* The paths that may exist where connect is not all that runs: the Discord
\* instances hold the lowest paths.
LowPaths == {0, 1}

\* main() starts.
Init ==
  /\ \E td \in BOOLEAN, ps \in SUBSET LowPaths :
       world = World("main", td, IF td THEN ps ELSE {}, CalmHello,
                     CalmReplies, FALSE)
  /\ pc = "start"
  /\ InitRest

\* ------------------------------------------------------------------ connect

\* Where the caller of connect goes on when it returns ret.
Returned(ret) ==
  IF world.harness = "main" THEN (IF ret THEN "loop" ELSE "done") ELSE "api"

\* A connect() without the test of line 55: it probes although the client
\* is connected.
ConnectBeginNoCheck ==
  /\ conn' = [NoConn EXCEPT
        !.calls = conn.calls + 1,
        !.already = client.connected,
        !.maxOpen = OpenSockets(client),
        !.ret = IF ~world.tmpdir THEN "false" ELSE "running"]
  /\ pc' = IF ~world.tmpdir THEN Returned(FALSE) ELSE "connect"
  /\ ci' = 0

\* connect() up to its loop (lines 55-61).
ConnectBegin ==
  /\ conn' = [NoConn EXCEPT
        !.calls = conn.calls + 1,
        !.already = client.connected,
        !.maxOpen = OpenSockets(client),
        !.ret = IF client.connected THEN "true"
                ELSE IF ~world.tmpdir THEN "false" ELSE "running"]
  /\ pc' = IF client.connected THEN Returned(TRUE)
           ELSE IF ~world.tmpdir THEN Returned(FALSE) ELSE "connect"
  /\ ci' = 0

\* A connect whose loop lacks the `return True` of line 84: after a READY it
\* goes on to the next candidate.
ConnectRetNoReturn(ready) ==
  IF ci = NumCandidates - 1 THEN "false" ELSE "running"

\* What connect does after the candidate ci: it returns True (line 84), goes
\* on to the next candidate, or leaves the loop and returns False (line 103).
ConnectRet(ready) ==
  IF ready THEN "true" ELSE IF ci = NumCandidates - 1 THEN "false"
  ELSE "running"

\* How connect goes on after the candidate ci.
AfterCandidate(ready) ==
  /\ pc' = IF ConnectRet(ready) = "true" THEN Returned(TRUE)
           ELSE IF ConnectRet(ready) = "false" THEN Returned(FALSE)
           ELSE "connect"
  /\ ci' = IF ConnectRet(ready) = "running" THEN ci + 1 ELSE ci

\* A connect without the os.path.exists test of line 66: it opens a socket
\* for a path that does not exist, sock.connect raises OSError and the
\* handler closes the socket.
ProbeAbsentOpens ==
  /\ pc = "connect"
  /\ ci \notin world.paths
  /\ AfterCandidate(FALSE)
  /\ client' = ConnectHandler(client)
  /\ conn' = [conn EXCEPT !.ret = ConnectRet(FALSE), !.opened = @ + 1]
  /\ UNCHANGED << world, pure, nonce, tick, last_was_playing,
                  last_song_info, cached_artwork, last, loop, exit >>

\* One iteration of connect's loop for a path that does not exist.
ProbeAbsent ==
  /\ pc = "connect"
  /\ ci \notin world.paths
  /\ AfterCandidate(FALSE)
  /\ conn' = [conn EXCEPT !.ret = ConnectRet(FALSE)]
  /\ UNCHANGED << world, pure, client, nonce, tick, last_was_playing,
                  last_song_info, cached_artwork, last, loop, exit >>

\* One iteration of connect's loop for a path that exists.
ProbePresent ==
  /\ pc = "connect"
  /\ ci \in world.paths
  /\ \E e \in ProbeEnvs(world) :
       \E r \in {Probe(client, ci, e)} :
           /\ client' = r.c
           /\ last' = LastRec("probe", FALSE, FALSE, FALSE, r.ready, r.t)
           /\ AfterCandidate(r.ready)
           /\ conn' = [conn EXCEPT
                 !.ret = ConnectRet(r.ready),
                 !.order = Append(@, ci),
                 !.ready = Append(@, AnsweredReady(r.t)),
                 !.opened = @ + r.t.opened,
                 !.sent = @ + r.t.sent,
                 !.maxOpen = IF ProbePeak(client, e) > @
                             THEN ProbePeak(client, e) ELSE @]
           /\ exit' = [exit EXCEPT !.onReady = AnsweredReady(r.t)]
  /\ UNCHANGED << world, pure, nonce, tick, last_was_playing, last_song_info,
                  cached_artwork, loop >>

\* ------------------------------------------------------------------ main()

\* main() up to the loop of connect: the client is constructed and connect
\* is called.  When connect returns False main prints and returns.
Start ==
  /\ pc = "start"
  /\ ConnectBegin
  /\ UNCHANGED << world, pure, client, nonce, tick, last_was_playing,
                  last_song_info, cached_artwork, last, loop, exit >>

\* A finally block that closes only after a clear that succeeded.
FinallyCloseOnSuccess(c, n, e) ==
  LET r == SetActivity(c, TRUE, n, e)
  IN  IF r.ret
        THEN [c |-> Close(r.c), r |-> r, log |-> << "set_activity", "close" >>,
              closes |-> 1]
        ELSE [c |-> r.c, r |-> r, log |-> << "set_activity" >>, closes |-> 0]

\* A finally block that clears the presence and does not close.
FinallySkipsClose(c, n, e) ==
  LET r == SetActivity(c, TRUE, n, e)
  IN  [c |-> r.c, r |-> r, log |-> << "set_activity" >>, closes |-> 0]

\* The finally block of main: set_activity(None), then close().
Finally(c, n, e) ==
  LET r == SetActivity(c, TRUE, n, e)
  IN  [c |-> Close(r.c), r |-> r, log |-> << "set_activity", "close" >>,
       closes |-> 1]

\* The loop is left: the except clauses print, the finally block runs.
LeaveLoop(c, how, e) ==
  \E f \in {Finally(c, nonce, e)} :
      /\ pc' = "done"
      /\ client' = f.c
      /\ nonce' = nonce + 1
      /\ last' = LastRec("set_activity", FALSE,
                         c.connected /\ c.sock # NoSock, TRUE, f.r.ret, f.r.t)
      /\ exit' = [exit EXCEPT !.entered = TRUE, !.how = how, !.log = f.log,
                              !.closes = @ + f.closes,
                              !.onReady = @ /\ f.c.sock # NoSock]

\* Artwork lines that look the artwork up on every playing tick.
ArtworkAlways(song, info, cached, found) ==
  [looked |-> TRUE,
   art |-> IF found THEN Some(<< song.artist, song.title >>) ELSE None,
   info |-> Some(SongInfo(song))]

\* The artwork lines of a playing tick (390-397): the lookup is made when the
\* identity changed; found says whether it returned a URL.  info is
\* last_song_info after them.
Artwork(song, info, cached, found) ==
  IF Some(SongInfo(song)) # info
    THEN [looked |-> TRUE,
          art |-> IF found THEN Some(<< song.artist, song.title >>) ELSE None,
          info |-> Some(SongInfo(song))]
    ELSE [looked |-> FALSE, art |-> cached, info |-> info]

\* A test that clears on every tick without a song.
ShouldClearAlways(lwp) == TRUE

\* A test that clears only after a tick with a song
\* (`if last_was_playing:`).
ShouldClearAfterPlaying(lwp) == lwp = "True"

\* The test of a tick without a song (line 434): whether the presence is
\* cleared.
ShouldClear(lwp) == lwp # "False"

\* The loop's record of a playing tick's lookup.
Looked(song, a, kind) ==
  [loop EXCEPT
     !.prev = loop.this, !.this = kind, !.clears = 0, !.pushes = 0,
     !.looked = a.looked,
     !.lookups = @ + (IF a.looked THEN 1 ELSE 0),
     !.changes = @ + (IF Some(SongInfo(song)) # loop.seen THEN 1 ELSE 0),
     !.seen = Some(SongInfo(song)),
     !.artBefore = cached_artwork,
     !.ts = NoTimestamps,
     !.pairChanged = Some(<< song.artist, song.title >>) # loop.pair,
     !.pair = Some(<< song.artist, song.title >>),
     !.invalid = FALSE]

\* The loop's record of a step that is not a playing tick.
Left(how, clears) ==
  [loop EXCEPT !.prev = loop.this, !.this = how, !.clears = clears,
               !.pushes = 0, !.looked = FALSE, !.artBefore = cached_artwork,
               !.ts = NoTimestamps, !.pairChanged = FALSE, !.invalid = FALSE]

\* An iteration that finds a song playing and pushes it (lines 388-430, 438).
TickPlaying ==
  /\ pc = "loop"
  /\ tick < MaxTicks
  /\ \E m \in RawOutputs, found \in BOOLEAN :
       /\ GetCurrentSong(m) # None
       /\ \E song \in {GetCurrentSong(m)[1]} :
          \E a \in {Artwork(song, last_song_info, cached_artwork, found)} :
              /\ ~TimestampsRaise(song)
              /\ found \/ a.looked
              /\ cached_artwork' = a.art
              /\ last_song_info' = a.info
              /\ \E e \in SetActivityEnvs(world, client, nonce) :
                   \E r \in {SetActivity(client, FALSE, nonce, e)} :
                       /\ client' = r.c
                       /\ last' = LastRec("set_activity", TRUE,
                                     client.connected /\ client.sock # NoSock,
                                     FALSE, r.ret, r.t)
              /\ \E now \in Nows(tick) :
                   loop' = [Looked(song, a, "playing") EXCEPT
                              !.pushes = 1, !.ts = Timestamps(song, now)]
  /\ nonce' = nonce + 1
  /\ last_was_playing' = "True"
  /\ tick' = tick + 1
  /\ UNCHANGED << world, pure, pc, ci, conn, exit >>

\* An iteration that finds no song (lines 388, 432-438).
TickIdle ==
  /\ pc = "loop"
  /\ tick < MaxTicks
  /\ \E m \in RawOutputs :
       /\ GetCurrentSong(m) = None
       /\ IF ShouldClear(last_was_playing)
            THEN /\ \E e \in SetActivityEnvs(world, client, nonce) :
                      \E r \in {SetActivity(client, TRUE, nonce, e)} :
                          /\ client' = r.c
                          /\ last' = LastRec("set_activity", TRUE,
                                     client.connected /\ client.sock # NoSock,
                                     TRUE, r.ret, r.t)
                 /\ nonce' = nonce + 1
                 /\ last_was_playing' = "False"
                 /\ loop' = [Left("idle", 1) EXCEPT !.invalid = m.playing]
            ELSE /\ loop' = [Left("idle", 0) EXCEPT !.invalid = m.playing]
                 /\ UNCHANGED << client, last, nonce, last_was_playing >>
  /\ tick' = tick + 1
  /\ UNCHANGED << world, pure, pc, ci, last_song_info, cached_artwork, conn, exit >>

\* An iteration whose song has a duration that is not finite: the artwork
\* lines run, int() raises, `except Exception` prints and the finally block
\* runs.
TickRaise ==
  /\ pc = "loop"
  /\ tick < MaxTicks
  /\ \E m \in RawOutputs, found \in BOOLEAN :
       /\ GetCurrentSong(m) # None
       /\ \E song \in {GetCurrentSong(m)[1]} :
          \E a \in {Artwork(song, last_song_info, cached_artwork, found)} :
              /\ TimestampsRaise(song)
              /\ found \/ a.looked
              /\ cached_artwork' = a.art
              /\ last_song_info' = a.info
              /\ \E e \in SetActivityEnvs(world, client, nonce) :
                   LeaveLoop(client, "raise", e)
              /\ loop' = Looked(song, a, "raise")
  /\ UNCHANGED << world, pure, ci, tick, last_was_playing, conn >>

\* KeyboardInterrupt while the loop sleeps or queries the media source: the
\* except clause prints and the finally block runs.
Interrupt ==
  /\ pc = "loop"
  /\ \E e \in SetActivityEnvs(world, client, nonce) :
       LeaveLoop(client, "interrupt", e)
  /\ loop' = Left("interrupt", 0)
  /\ UNCHANGED << world, pure, ci, tick, last_was_playing, last_song_info,
                  cached_artwork, conn >>

\* KeyboardInterrupt inside a set_activity call of the loop, in recv: the
\* command was sent, what the peer writes back stays unread.
InterruptInCall ==
  /\ pc = "loop"
  /\ tick < MaxTicks
  /\ \E reply \in world.replies :
       \E c \in {Client(client.sock, client.connected,
                         client.wire \o PeerReply(reply, nonce),
                         client.garbage)} :
         \E e \in SetActivityEnvs(world, c, nonce) :
           LeaveLoop(c, "interrupt", e)
  /\ loop' = Left("interrupt", 0)
  /\ UNCHANGED << world, pure, ci, tick, last_was_playing, last_song_info,
                  cached_artwork, conn >>

Next ==
  \/ Start
  \/ ProbeAbsent
  \/ ProbePresent
  \/ TickPlaying
  \/ TickIdle
  \/ TickRaise
  \/ Interrupt
  \/ InterruptInCall

Spec == Init /\ [][Next]_vars

\* ------------------------------------------------------ a caller of the client

\* A caller that drives the client directly: any peer, any read sizes.
InitClient ==
  /\ \E td \in BOOLEAN, ps \in SUBSET LowPaths :
       world = World("api", td, IF td THEN ps ELSE {}, ReplyKinds, ReplyKinds,
                     TRUE)
  /\ pc = "api"
  /\ InitRest

\* A caller that only connects: any set of at most MaxInstances paths, any
\* peer, full reads.
InitConnect ==
  /\ \E td \in BOOLEAN, ps \in SUBSET (0..(NumCandidates - 1)) :
       /\ Cardinality(ps) <= MaxInstances
       /\ world = World("api", td, IF td THEN ps ELSE {}, ReplyKinds,
                        ReplyKinds, FALSE)
  /\ pc = "api"
  /\ InitRest

\* A session: one Discord instance that answers the handshake with READY and
\* the commands with well-formed packets or not at all; recv may return less
\* than what is in flight, so that a response can arrive after the call that
\* waited for it gave up.
InitSession ==
  /\ world = World("session", TRUE, {0}, {"ready"}, CalmReplies, TRUE)
  /\ pc = "api"
  /\ InitRest

\* The calls a caller makes in a run.
CallBudget == IF world.harness = "session" THEN MaxCommands + 1 ELSE MaxCalls

\* The caller calls connect().
ApiConnect ==
  /\ pc = "api"
  /\ exit.apiCalls < CallBudget
  /\ ConnectBegin
  /\ exit' = [exit EXCEPT !.apiCalls = @ + 1]
  /\ last' = LastRec("connect", FALSE, client.connected, FALSE,
                     client.connected, NoTrace)
  /\ UNCHANGED << world, pure, client, nonce, tick, last_was_playing,
                  last_song_info, cached_artwork, loop >>

\* The caller calls set_activity(activity).
ApiSetActivity ==
  /\ pc = "api"
  /\ exit.apiCalls < CallBudget
  /\ \E activityIsNone \in BOOLEAN :
       \E e \in SetActivityEnvs(world, client, nonce) :
         \E r \in {SetActivity(client, activityIsNone, nonce, e)} :
           /\ client' = r.c
           /\ last' = LastRec("set_activity", FALSE,
                              client.connected /\ client.sock # NoSock,
                              activityIsNone, r.ret, r.t)
  /\ nonce' = nonce + 1
  /\ exit' = [exit EXCEPT !.apiCalls = @ + 1]
  /\ UNCHANGED << world, pure, pc, ci, tick, last_was_playing, last_song_info,
                  cached_artwork, conn, loop >>

\* The caller calls close().
ApiClose ==
  /\ pc = "api"
  /\ exit.apiCalls < CallBudget
  /\ client' = Close(client)
  /\ last' = LastRec("close", FALSE, client.connected, FALSE, FALSE, NoTrace)
  /\ exit' = [exit EXCEPT !.apiCalls = @ + 1, !.closes = @ + 1,
                          !.onReady = FALSE]
  /\ UNCHANGED << world, pure, pc, ci, nonce, tick, last_was_playing,
                  last_song_info, cached_artwork, conn, loop >>

NextClient ==
  \/ ApiConnect
  \/ ProbeAbsent
  \/ ProbePresent
  \/ ApiSetActivity
  \/ ApiClose

SpecClient == InitClient /\ [][NextClient]_vars

NextConnect ==
  \/ ApiConnect
  \/ ProbeAbsent
  \/ ProbePresent

SpecConnect == InitConnect /\ [][NextConnect]_vars

NextSession ==
  \/ ApiConnect
  \/ ProbeAbsent
  \/ ProbePresent
  \/ ApiSetActivity
  \/ ApiClose

SpecSession == InitSession /\ [][NextSession]_vars

\* ------------------------------------------- the transport, on its own stream

\* The opcodes and payload objects a packet is encoded from, and the bytes
\* that follow the packet on the stream (nothing, or the start of the next
\* packet).
CodecOpcodes == {0, 1, 2, 70000}

CodecPayloads ==
  {Handshake, Command(1, TRUE), Command(2, FALSE), JVal("dict", EvtReady, 3),
   JVal("empty", 0, 0)}

CodecTails == {<< >>, StructPack(1, 2) \o << 123, 125 >>}

\* A packet is to be written with _send_packet to a stream that
\* _read_packet reads.
InitCodec ==
  /\ world = World("codec", FALSE, {}, {}, {}, TRUE)
  /\ pc = "codec"
  /\ \E opcode \in CodecOpcodes, payload \in CodecPayloads,
        tail \in CodecTails :
       pure = [kind |-> "codec", arg |-> << opcode, payload, tail >>,
               out |-> << >>]
  /\ InitState

\* _send_packet(opcode, payload) writes the packet, the tail follows it, and
\* _read_packet reads with recv calls that return k[1] and k[2] bytes.
\* out: what _read_packet returned and the number of bytes it took off the
\* stream.
RoundTrip ==
  /\ pc = "codec"
  /\ \E s \in {SendPacket(TRUE, pure.arg[1], pure.arg[2], TRUE)} :
       \E k \in RecvSizes(s.bytes \o pure.arg[3]) :
         \E r \in {ReadPacket(TRUE, s.bytes \o pure.arg[3], k[1], k[2])} :
           pure' = [pure EXCEPT
             !.out = << [res |-> r.res, opcode |-> r.opcode, val |-> r.val,
                         taken |-> Len(s.bytes) + Len(pure.arg[3])
                                     - Len(r.wire),
                         length |-> r.length, hlen |-> r.hlen] >>]
  /\ pc' = "done"
  /\ UNCHANGED << world, ci, client, nonce, tick, last_was_playing,
                  last_song_info, cached_artwork, conn, last, loop, exit >>

SpecCodec == InitCodec /\ [][RoundTrip]_vars

\* --------------------------------------------------- SongData, on its own

\* The arguments SongData is constructed from.
SongTitles == {<< "c" >>, << " ", "c", " " >>, << " " >>, << >>}

SongArtists == {<< "a" >>, << " " >>, << >>}

SongAlbums == {<< "x" >>, << >>}

SongDurations == {-1, 0, 7, Inf, NaN}

SongPositions == {-1, 0, 3, 9, Inf, NaN}

\* SongData is to be constructed from some arguments.
InitSong ==
  /\ world = World("song", FALSE, {}, {}, {}, FALSE)
  /\ pc = "song"
  /\ \E title \in SongTitles, artist \in SongArtists, album \in SongAlbums,
        duration \in SongDurations, position \in SongPositions :
       pure = [kind |-> "song",
               arg |-> << title, artist, album, duration, position >>,
               out |-> << >>]
  /\ InitState

\* SongData(title, artist, album, duration, position) is constructed.
Construct ==
  /\ pc = "song"
  /\ pure' = [pure EXCEPT
       !.out = << SongData(pure.arg[1], pure.arg[2], pure.arg[3],
                           pure.arg[4], pure.arg[5]) >>]
  /\ pc' = "done"
  /\ UNCHANGED << world, ci, client, nonce, tick, last_was_playing,
                  last_song_info, cached_artwork, conn, last, loop, exit >>

SpecSong == InitSong /\ [][Construct]_vars

\* -------------------------------------------------------------- properties

\* The candidates the latest connect call tried.
Tried == { conn.order[a] : a \in 1..Len(conn.order) }

\* C1: set_activity on a connected client returns False whenever sending or
\* reading failed at the transport level (the send raised; the read timed out,
\* got a short header, a closed peer, a body that does not decode or a bad
\* length), and returns True only when a response was received and its evt is
\* not ERROR.
C1_SetActivityFalseOnTransportFailure ==
  (last.op = "set_activity" /\ last.wasConnected) =>
    /\ (last.t.sendFailed \/ last.t.read \in {"none", "raise"}) => ~last.ret
    /\ last.ret =>
         /\ last.t.read = "ok"
         /\ ~(last.t.val.k = "dict" /\ last.t.val.evt = EvtError)

\* C2: when a full 8-byte header was read and its length field is 0 or more
\* than 1 MiB, _read_packet returns (None, None): it does not raise.
C2_ReadPacketNoneOnBadLength ==
  ( /\ last.op \in {"set_activity", "probe"}
    /\ last.t.read # "skipped"
    /\ last.t.hlen = 8
    /\ (last.t.length = 0 \/ last.t.length > MaxPacketLen) )
  => last.t.read = "none"

\* C3: connect closes and releases the socket of every candidate that failed
\* before it tries the next one, so that at most one socket is open at any
\* time, and when connect returned False sock is None and connected is False.
C3_FailedCandidateSocketClosed ==
  /\ (pc = "connect" /\ ~conn.already) => client.sock = NoSock
  /\ conn.maxOpen <= 1
  /\ conn.ret = "false" => (client.sock = NoSock /\ ~client.connected)

\* C4: a connect call on a client that is not connected tries the existing
\* candidates in strictly ascending index order and skips none; the first one
\* that answers READY ends the probing, its socket is the one the client
\* keeps and no higher candidate is tried; connect returns True exactly when
\* a candidate it tried answered READY.
C4_ConnectFirstReadyInOrder ==
  ~conn.already =>
    /\ Tried \subseteq world.paths
    /\ \A a, b \in 1..Len(conn.order) : a < b => conn.order[a] < conn.order[b]
    /\ \A a \in 1..Len(conn.order) :
         conn.ready[a] => (a = Len(conn.order) /\ conn.ret = "true")
    /\ conn.ret = "true" <=>
         (Len(conn.order) > 0 /\ conn.ready[Len(conn.order)])
    /\ conn.ret = "true" =>
         /\ client.connected
         /\ client.sock = conn.order[Len(conn.order)]
         /\ Tried = { p \in world.paths : p <= client.sock }
    /\ conn.ret = "running" => Tried = { p \in world.paths : p < ci }
    /\ (conn.ret = "false" /\ world.tmpdir) => Tried = world.paths

\* C4, its case: the lowest candidate did not answer READY, a higher one did
\* and connect returned True with the socket of the higher one.
C4_Witness ==
  /\ conn.ret = "true"
  /\ Len(conn.order) = 2
  /\ ~conn.ready[1]
  /\ client.sock = conn.order[2]
  /\ client.sock > 1

\* C5: when the runtime directory does not exist, or none of the ten paths
\* exists, connect returns False, opens no socket, sends no packet and leaves
\* connected False.
C5_ConnectWithoutCandidates ==
  (conn.calls > 0 /\ (~world.tmpdir \/ world.paths = {})) =>
    /\ conn.opened = 0
    /\ conn.sent = 0
    /\ conn.order = << >>
    /\ client.sock = NoSock
    /\ ~client.connected
    /\ conn.ret \in {"running", "false"}
    /\ pc = "api" => conn.ret = "false"

\* C5, its case: the directory exists, connect went through all ten paths,
\* found none and returned False.
C5_Witness ==
  /\ world.tmpdir
  /\ world.paths = {}
  /\ conn.calls > 0
  /\ ci = NumCandidates - 1
  /\ conn.ret = "false"

\* C6: the tick without a song that follows a tick with a song makes exactly
\* one set_activity(None) call; a tick without a song that follows a tick
\* without a song makes none, whether or not the clear succeeded.
C6_OneClearPerTransition ==
  loop.this = "idle" =>
    /\ loop.prev = "playing" =>
         /\ loop.clears = 1
         /\ loop.pushes = 0
         /\ last.op = "set_activity" /\ last.inLoop /\ last.activityIsNone
         /\ last_was_playing = "False"
    /\ loop.prev = "idle" => (loop.clears = 0 /\ loop.pushes = 0)

\* C6, its case: a song played, the clear of the next tick failed, and the
\* tick after it found no song either and made no call.
C6_Witness ==
  /\ loop.this = "idle"
  /\ loop.prev = "idle"
  /\ loop.seen # None
  /\ last.op = "set_activity" /\ last.inLoop /\ last.activityIsNone
  /\ last.wasConnected
  /\ ~last.ret

\* C7, as stated: the loop calls set_activity(None) only on a tick without a
\* song that immediately follows a tick with a song; a first tick without a
\* song sends no clear.
C7_ClearOnlyAfterPlaying ==
  /\ loop.clears > 0 => (loop.this = "idle" /\ loop.prev = "playing")
  /\ (tick = 1 /\ loop.this = "idle") => loop.clears = 0

\* C7, amended: the loop calls set_activity(None) only on a tick without a
\* song that immediately follows a tick with a song or that is the first tick
\* of the loop, and the first tick, when it finds no song, sends exactly one
\* clear.
C7_ClearAfterPlayingOrAtStart ==
  /\ loop.clears > 0 =>
       (loop.this = "idle" /\ loop.prev \in {"playing", "none"})
  /\ (loop.this = "idle" /\ loop.prev = "none") =>
       /\ tick = 1
       /\ loop.clears = 1
       /\ last.op = "set_activity" /\ last.inLoop /\ last.activityIsNone
       /\ last_was_playing = "False"

\* C7, its case: the first tick found no song and sent the clear.
C7_Witness ==
  /\ tick = 1
  /\ loop.this = "idle"
  /\ loop.clears = 1
  /\ last.op = "set_activity" /\ last.inLoop /\ last.activityIsNone
  /\ last.t.sent = 1

\* C8: a tick with a song makes the artwork lookup exactly when the song's
\* identity differs from the identity of the tick with a song before it, so
\* the lookups made equal the identity changes seen; a tick that makes no
\* lookup keeps the cached artwork.
C8_LookupOnIdentityChange ==
  /\ loop.lookups = loop.changes
  /\ last_song_info = loop.seen
  /\ (loop.this \in {"playing", "raise"} /\ ~loop.looked) =>
       cached_artwork = loop.artBefore

\* C8, its case: a song played, a tick found no song, the same song played
\* again and no second lookup was made, although the first found no artwork.
C8_Witness ==
  /\ loop.this = "playing"
  /\ loop.prev = "idle"
  /\ ~loop.looked
  /\ loop.lookups = 1
  /\ cached_artwork = None

\* C9: when the loop has been left, by an interrupt or by an exception of a
\* tick, the finally block has made exactly one set_activity(None) call and
\* then one close() call, whether or not the clear succeeded; connected is
\* False and the socket is released.
C9_FinalClearThenClose ==
  (pc = "done" /\ exit.entered) =>
    /\ exit.how \in {"interrupt", "raise"}
    /\ exit.log = << "set_activity", "close" >>
    /\ exit.closes = 1
    /\ last.op = "set_activity" /\ ~last.inLoop /\ last.activityIsNone
    /\ ~client.connected
    /\ client.sock = NoSock

\* C9, its case: a tick raised, the final clear failed, close ran.
C9_Witness ==
  /\ pc = "done"
  /\ exit.entered
  /\ exit.how = "raise"
  /\ last.wasConnected
  /\ ~last.ret
  /\ exit.closes = 1

\* C10, as stated: in a run of main, connect was called once and, when the
\* program has ended, close was called exactly once, the run where connect
\* returned False included.
C10_CloseOnEveryExit ==
  /\ conn.calls <= 1
  /\ pc = "done" => (conn.calls = 1 /\ exit.closes = 1)

\* C10, amended: connect is called once; when it returned True close is
\* called exactly once, when the loop has been left; when it returned False
\* main returns and close is not called.
C10_CloseOnceAfterConnect ==
  /\ conn.calls <= 1
  /\ exit.closes <= 1
  /\ pc # "start" => conn.calls = 1
  /\ pc = "loop" => (conn.ret = "true" /\ exit.closes = 0)
  /\ pc = "done" =>
       /\ conn.ret \in {"true", "false"}
       /\ conn.ret = "true" => (exit.entered /\ exit.closes = 1)
       /\ conn.ret = "false" => (~exit.entered /\ exit.closes = 0)

\* C10, its case: a candidate was tried, connect returned False and main
\* ended without a close call.
C10_Witness ==
  /\ pc = "done"
  /\ conn.ret = "false"
  /\ Len(conn.order) > 0
  /\ exit.closes = 0

\* C11: close() called in any state leaves connected False and sock None,
\* and a second close() leaves the state exactly as the first left it.
C11_CloseIdempotent ==
  /\ Close(Close(client)) = Close(client)
  /\ last.op = "close" =>
       /\ ~client.connected
       /\ client.sock = NoSock
       /\ Close(client) = client

\* C11, its case: close() was called on a client that was never connected,
\* and then once more.
C11_Witness ==
  /\ last.op = "close"
  /\ exit.closes = 2
  /\ conn.calls = 0
  /\ client = NewClient

\* C12: a packet written by _send_packet and read back by _read_packet from
\* the same stream comes back with the same opcode and an equal payload, and
\* _read_packet takes exactly 8 + length bytes off the stream.
C12_RoundTrip ==
  (pure.kind = "codec" /\ pure.out # << >>) =>
    /\ pure.out[1].res = "ok"
    /\ pure.out[1].opcode = pure.arg[1]
    /\ pure.out[1].val = pure.arg[2]
    /\ pure.out[1].taken = 8 + Len(JsonDumps(pure.arg[2]))

\* floor(x) of a time x >= 0 counted in half seconds, in seconds.
Floor(x) == CHOOSE n \in 0..x : 2 * n <= x /\ x < 2 * n + 2

\* C13: the payload pushed at the epoch second now for a validated snapshot
\* has start = now - floor(position) and end = now + floor(duration -
\* position), so start <= now <= end.
C13_Timestamps ==
  loop.this = "playing" =>
    /\ loop.pushes = 1
    /\ loop.ts.position >= 0 /\ loop.ts.position <= loop.ts.duration
    /\ loop.ts.start = loop.ts.now - Floor(loop.ts.position)
    /\ loop.ts.end =
         loop.ts.now + Floor(loop.ts.duration - loop.ts.position)
    /\ loop.ts.start <= loop.ts.now
    /\ loop.ts.now <= loop.ts.end

\* C13, its case: a song 3.5 s long was 1.5 s in when it was pushed: the
\* payload starts one second before now and ends two seconds after.
C13_Witness ==
  /\ loop.this = "playing"
  /\ last.op = "set_activity" /\ last.inLoop /\ last.t.sent = 1
  /\ loop.ts.duration = 7
  /\ loop.ts.position = 3
  /\ loop.ts.start = loop.ts.now - 1
  /\ loop.ts.end = loop.ts.now + 2

\* A sequence of characters that is empty after trimming.
Blank(s) == \A i \in 1..Len(s) : s[i] = " "

\* x is a number (not NaN) and 0 <= x.
NonNegative(x) == x # NaN /\ x >= 0

\* C14: SongData with duration >= 0, position >= 0, position > duration (and
\* a title and an artist that are not blank) is constructed with position =
\* duration; a negative duration or position, or a blank title or artist,
\* fails; every SongData that was constructed has 0 <= position <= duration
\* and a title and an artist that are not blank.
C14_SongDataValidated ==
  (pure.kind = "song" /\ pure.out # << >>) =>
    /\ ( /\ NonNegative(pure.arg[4]) /\ NonNegative(pure.arg[5])
         /\ pure.arg[5] > pure.arg[4]
         /\ ~Blank(pure.arg[1]) /\ ~Blank(pure.arg[2]) )
       => (pure.out[1].ok /\ pure.out[1].song.position = pure.arg[4])
    /\ ( \/ pure.arg[4] < 0 \/ pure.arg[5] < 0
         \/ Blank(pure.arg[1]) \/ Blank(pure.arg[2]) )
       => ~pure.out[1].ok
    /\ pure.out[1].ok =>
         /\ NonNegative(pure.out[1].song.position)
         /\ NonNegative(pure.out[1].song.duration)
         /\ pure.out[1].song.position <= pure.out[1].song.duration
         /\ ~Blank(pure.out[1].song.title)
         /\ ~Blank(pure.out[1].song.artist)

\* C15: a set_activity call leaves connected and the socket as they were,
\* whatever its outcome, and a response whose evt is ERROR makes it return
\* False.
C15_SetActivityKeepsSession ==
  /\ [][nonce' # nonce =>
          /\ client'.connected = client.connected
          /\ client'.sock = client.sock
          /\ OpenSockets(client') = OpenSockets(client)]_vars
  /\ []((/\ last.op = "set_activity"
          /\ last.t.read = "ok"
          /\ last.t.val.k = "dict"
          /\ last.t.val.evt = EvtError) => ~last.ret)

\* C15, its case: a connected client got an ERROR response, returned False
\* and is still connected on the same socket.
C15_Witness ==
  /\ last.op = "set_activity"
  /\ last.wasConnected
  /\ last.t.read = "ok"
  /\ last.t.val.k = "dict"
  /\ last.t.val.evt = EvtError
  /\ ~last.ret
  /\ client.connected
  /\ client.sock # NoSock

\* C16: a set_activity call on a connected client sends one Frame packet,
\* and the response it evaluates answers the command of that same call: it
\* carries the nonce of the call, never the nonce of an earlier one.
C16_ResponseOfSameCall ==
  (last.op = "set_activity" /\ last.wasConnected) =>
    /\ last.t.sent = 1 \/ last.t.sendFailed
    /\ (last.t.read = "ok" /\ last.t.val.k = "dict") =>
         last.t.val.n = nonce - 1

\* The packet a call sent: its opcode, its length field and its payload.
SentPacket(t) ==
  [opcode |-> StructUnpack(Take(t.out, 8))[1],
   length |-> StructUnpack(Take(t.out, 8))[2],
   body |-> JsonLoads(Drop(t.out, 8))]

\* C17: the packet sent on a socket that connect opened is a Handshake with
\* opcode 0; a Frame packet (opcode 1) is sent only while connected is True,
\* on the socket that received READY; set_activity on a client that is not
\* connected returns False with nothing sent and nothing read.
C17_HandshakeBeforeFrames ==
  /\ []((last.op = "probe" /\ last.t.sent = 1) =>
          /\ SentPacket(last.t).opcode = 0
          /\ SentPacket(last.t).length = Len(last.t.out) - 8
          /\ SentPacket(last.t).body = [ok |-> TRUE, v |-> Handshake])
  /\ []((last.op = "set_activity" /\ last.t.sent = 1) =>
          /\ SentPacket(last.t).opcode = 1
          /\ SentPacket(last.t).body.ok
          /\ SentPacket(last.t).body.v.k = "command")
  /\ []((last.op = "set_activity" /\ ~last.wasConnected) =>
          /\ ~last.ret
          /\ last.t.sent = 0 /\ ~last.t.sendFailed
          /\ last.t.read = "skipped")
  /\ [](client.connected => (client.sock # NoSock /\ exit.onReady))
  /\ [][(nonce' # nonce /\ (last'.t.sent = 1 \/ last'.t.sendFailed)) =>
          /\ client.connected
          /\ client.sock # NoSock
          /\ exit.onReady]_vars

\* C17, its case: connect failed and left a socket that never received
\* READY; set_activity was called and returned False without sending.
C17_Witness ==
  /\ last.op = "set_activity"
  /\ ~last.wasConnected
  /\ conn.ret = "false"
  /\ client.sock # NoSock
  /\ ~exit.onReady
  /\ last.t.sent = 0
  /\ ~last.ret

\* C18, as stated: once close has run nothing makes connected True again or
\* opens a socket.
C18_ClosedIsTerminal ==
  exit.closes > 0 => (~client.connected /\ client.sock = NoSock)

\* C18, amended: connected becomes True only in connect, on a READY
\* response, and False only in close; set_activity and close never set
\* connected and never open a socket, so nothing reconnects on its own; a
\* socket is opened only by a connect call on a client that is not
\* connected, which probes again also after close; connect on a connected
\* client returns True, opens no socket and sends nothing.
C18_NoRecoveryButReconnect ==
  /\ [][(client'.connected /\ ~client.connected) =>
          /\ pc = "connect"
          /\ ~conn.already
          /\ last'.op = "probe"
          /\ AnsweredReady(last'.t)]_vars
  /\ [][(client.connected /\ ~client'.connected) =>
          /\ exit'.closes = exit.closes + 1
          /\ client'.sock = NoSock]_vars
  /\ [][(nonce' # nonce \/ exit'.closes # exit.closes) =>
          /\ client'.connected => client.connected
          /\ OpenSockets(client') <= OpenSockets(client)
          /\ client'.sock \in {client.sock, NoSock}]_vars
  /\ [][client'.sock \notin {client.sock, NoSock} =>
          (pc = "connect" /\ ~client.connected /\ ~conn.already)]_vars
  /\ [](conn.already =>
          /\ conn.ret = "true"
          /\ conn.opened = 0
          /\ conn.sent = 0
          /\ conn.order = << >>)

\* C18, its case: close ran, connect was called again, probed and made
\* connected True.
C18_Witness ==
  /\ exit.closes > 0
  /\ last.op = "probe"
  /\ ~conn.already
  /\ conn.ret = "true"
  /\ client.connected

\* C19: a tick with a song whose (artist, title) differs from that of the
\* tick with a song before it makes the artwork lookup, so the cached
\* artwork a payload carries was fetched for the (artist, title) of that
\* tick.
C19_ArtworkOfSamePair ==
  loop.this \in {"playing", "raise"} =>
    /\ loop.pairChanged => loop.looked
    /\ cached_artwork # None => Some(cached_artwork[1]) = loop.pair

\* C20: a tick whose media-source output is rejected as an invalid snapshot
\* makes no set_activity call and leaves last_was_playing, last_song_info
\* and cached_artwork as they were.
C20_InvalidSnapshotSkipsTick ==
  (loop.this = "idle" /\ loop.invalid) =>
    /\ loop.clears = 0
    /\ loop.pushes = 0
    /\ loop.prev = "playing" => last_was_playing = "True"
    /\ loop.prev = "none" => last_was_playing = "None"
    /\ cached_artwork = loop.artBefore

====
